---- MODULE Spec2Model ----
(***************************************************************************)
(* Model of anonapi's typed parameter / source identifier data model       *)
(* (anonapi/parameters.py) with the text of a mapping, of its `create      *)
(* from-mapping` command with the batch file                               *)
(* (anonapi/cli/create_commands.py) and of its `map` commands              *)
(* with the mapping file (anonapi/cli/map_commands.py).  Each of the three *)
(* has its own variables and its own specification: Spec, SpecCreate and   *)
(* SpecMap (SpecFolders for the map commands with add_study_folders); the  *)
(* variables of the other two stay as they start.                          *)
(*                                                                         *)
(* Texts are sequences of tokens.  A token is either a single character    *)
(* ("x", ":", ",", "/", "\\", ".") or a whole word that the code compares   *)
(* as a unit (an identifier key such as "folder", a field name such as     *)
(* "patient_id").  No word contains a delimiter and no word is a           *)
(* concatenation of other tokens, so token sequences and the strings they  *)
(* stand for correspond one to one.                                        *)
(***************************************************************************)
EXTENDS Integers, Sequences, FiniteSets, TLC

\* the caller of the parameter module
VARIABLES op, arg, out, src, inner

\* the `create from-mapping` command, the batch file of the current folder
\* and the jobs the servers hold
VARIABLES pc, settings, mapping, active_server, created_job_ids, results,
          output, batch_file, jobs, loaded, confirmed

\* the `map` commands and the mapping file of the current folder
VARIABLES command, result, launched, mapping_file

callVars == <<op, arg, out, src, inner>>

createVars == <<pc, settings, mapping, active_server, created_job_ids,
                results, output, batch_file, jobs, loaded, confirmed>>

mapVars == <<command, result, launched, mapping_file>>

vars == <<callVars, createVars, mapVars>>

----------------------------------------------------------------------------
(* Bounds *)

\* longest free-form value text, in tokens
MaxValLen == 2

\* longest path text, in tokens
MaxPathLen == 4

\* longest parameter list handed to ParameterSet
MaxParams == 2

----------------------------------------------------------------------------
(* Texts *)

SeqsUpTo(A, n) == UNION {[1..k -> A] : k \in 0..n}

\* single characters that occur in free-form values
ValueChars == {"x", ":", ",", "/", "\\", "."}

\* characters that can be a windows drive letter
drive_letters == {"x"}

Values == SeqsUpTo(ValueChars, MaxValLen)

Contains(s, c) == \E i \in 1..Len(s) : s[i] = c

\* index of the first / last occurrence of c in s (s contains c)
FirstIndex(s, c) == CHOOSE i \in 1..Len(s) : s[i] = c /\ \A j \in 1..(i-1) : s[j] # c

LastIndex(s, c) == CHOOSE i \in 1..Len(s) : s[i] = c /\ \A j \in (i+1)..Len(s) : s[j] # c

\* str.rsplit(sep, maxsplit=1)
rsplit_maxsplit1(s, sep) ==
    IF ~Contains(s, sep) THEN <<s>>
    ELSE LET i == LastIndex(s, sep)
         IN  <<SubSeq(s, 1, i-1), SubSeq(s, i+1, Len(s))>>

\* str.split(sep, maxsplit=1): the list of parts, one part when sep is absent
split_maxsplit1(s, sep) ==
    IF ~Contains(s, sep) THEN <<s>>
    ELSE LET i == FirstIndex(s, sep)
         IN  <<SubSeq(s, 1, i-1), SubSeq(s, i+1, Len(s))>>

\* str.replace(a, b) for single characters
replace(s, a, b) == [i \in 1..Len(s) |-> IF s[i] = a THEN b ELSE s[i]]

\* str.find(c, start): index (from 1) of the first c at or after `from`,
\* 0 when there is none
find(s, c, from) ==
    IF \E i \in from..Len(s) : s[i] = c
    THEN CHOOSE i \in from..Len(s) : s[i] = c /\ \A j \in from..(i-1) : s[j] # c
    ELSE 0

\* str.lstrip(c)
RECURSIVE lstrip(_, _)
lstrip(s, c) == IF s # <<>> /\ Head(s) = c THEN lstrip(Tail(s), c) ELSE s

\* str.split(c)
RECURSIVE split(_, _)
split(s, c) ==
    IF ~Contains(s, c) THEN <<s>>
    ELSE LET i == FirstIndex(s, c)
         IN  <<SubSeq(s, 1, i-1)>> \o split(SubSeq(s, i+1, Len(s)), c)

\* c.join(parts)
RECURSIVE join(_, _)
join(parts, c) ==
    IF parts = <<>> THEN <<>>
    ELSE IF Len(parts) = 1 THEN parts[1]
    ELSE parts[1] \o <<c>> \o join(Tail(parts), c)

\* the slice s[i-1:i] of a python string: one character, or nothing past the end
CharAt(s, i) == IF i <= Len(s) THEN <<s[i]>> ELSE <<>>

----------------------------------------------------------------------------
(* pathlib.PureWindowsPath, the value_type of PathParameter: what the      *)
(* constructor keeps of a text and what str() renders of it (the windows   *)
(* flavour of pathlib up to python 3.11; extended "\\\\?\\" prefixes need a     *)
(* "?" and are not among the texts considered).                            *)

sep == "\\"

altsep == "/"

\* _WindowsFlavour.splitroot: drive, root and the rest of a text
splitroot(part) ==
    LET first  == CharAt(part, 1)
        second == CharAt(part, 2)
        third  == CharAt(part, 3)
        index  == find(part, sep, 3)
        index2 == find(part, sep, index + 1)
        end    == IF index2 = 0 THEN Len(part) + 1 ELSE index2
    IN  IF /\ first = <<sep>> /\ second = <<sep>> /\ third # <<sep>>
           /\ index # 0 /\ index2 # index + 1
        THEN \* a UNC path: \\machine\mountpoint is the drive
             [drv  |-> SubSeq(part, 1, end - 1),
              root |-> <<sep>>,
              rel  |-> SubSeq(part, end + 1, Len(part))]
        ELSE LET hasdrv == second = <<":">> /\ first # <<>>
                                /\ first[1] \in drive_letters
                 rest   == IF hasdrv THEN SubSeq(part, 3, Len(part)) ELSE part
                 first2 == IF hasdrv THEN third ELSE first
             IN  [drv  |-> IF hasdrv THEN SubSeq(part, 1, 2) ELSE <<>>,
                  root |-> IF first2 = <<sep>> THEN <<sep>> ELSE <<>>,
                  rel  |-> IF first2 = <<sep>> THEN lstrip(rest, sep) ELSE rest]

\* the components parse_parts keeps: not empty and not "."
is_component(x) == x # <<>> /\ x # <<".">>

\* PureWindowsPath(text): _Flavour.parse_parts of one text
PureWindowsPath(text) ==
    LET r == splitroot(replace(text, altsep, sep))
        anchor == IF r.drv # <<>> \/ r.root # <<>> THEN <<r.drv \o r.root>> ELSE <<>>
    IN  [t |-> "PureWindowsPath", drv |-> r.drv, root |-> r.root,
         parts |-> anchor \o SelectSeq(split(r.rel, sep), is_component)]

\* PurePath.__str__
PurePath_str(p) ==
    LET text == IF p.drv # <<>> \/ p.root # <<>>
                THEN p.drv \o p.root \o join(Tail(p.parts), sep)
                ELSE join(p.parts, sep)
    IN  IF text = <<>> THEN <<".">> ELSE text

\* PurePath.__eq__: equal (case-folded) parts
PurePath_eq(p, q) == p.parts = q.parts

\* PurePath.is_absolute, windows flavour: a root and a drive
PurePath_is_absolute(p) == p.root # <<>> /\ p.drv # <<>>

\* the components of one part of parse_parts, in path order
components(rel) == SelectSeq(split(rel, sep), is_component)

\* parse_parts, the search for a drive in the parts before part i
RECURSIVE previous_drive(_, _)
previous_drive(parts, i) ==
    IF i = 0 THEN <<>>
    ELSE LET drv == splitroot(replace(parts[i], altsep, sep)).drv
         IN  IF parts[i] # <<>> /\ drv # <<>> THEN drv
             ELSE previous_drive(parts, i - 1)

\* parse_parts, the loop over reversed(parts): i is the part looked at and
\* parsed the components found behind it
RECURSIVE parse_parts_from(_, _, _)
parse_parts_from(parts, i, parsed) ==
    IF i = 0 THEN [drv |-> <<>>, root |-> <<>>, parts |-> parsed]
    ELSE IF parts[i] = <<>> THEN parse_parts_from(parts, i - 1, parsed)
    ELSE LET r      == splitroot(replace(parts[i], altsep, sep))
             found  == components(r.rel) \o parsed
             drv    == IF r.drv = <<>> THEN previous_drive(parts, i - 1) ELSE r.drv
         IN  IF r.drv # <<>> \/ r.root # <<>>
             THEN [drv |-> drv, root |-> r.root, parts |-> <<drv \o r.root>> \o found]
             ELSE parse_parts_from(parts, i - 1, found)

\* _Flavour.parse_parts: drive, root and components of a list of texts
parse_parts(parts) == parse_parts_from(parts, Len(parts), <<>>)

\* PurePath._parse_args of one argument, a text or a path
parse_args(a) ==
    IF a.t = "str" THEN parse_parts(<<a.s>>) ELSE parse_parts(a.parts)

\* PurePath._from_parsed_parts
from_parsed_parts(r) ==
    [t |-> "PureWindowsPath", drv |-> r.drv, root |-> r.root, parts |-> r.parts]

\* PureWindowsPath(a) for a text or a path
PureWindowsPath_of(a) == from_parsed_parts(parse_args(a))

\* _Flavour.join_parsed_parts (drive names compare case-folded; the texts
\* of the model have one case)
join_parsed_parts(p, q) ==
    IF q.root # <<>> /\ q.drv = <<>> /\ p.drv # <<>>
    THEN [drv |-> p.drv, root |-> q.root,
          parts |-> <<p.drv \o q.root>> \o Tail(q.parts)]
    ELSE IF q.root = <<>> /\ q.drv # <<>> /\ q.drv = p.drv
    THEN [drv |-> p.drv, root |-> p.root, parts |-> p.parts \o Tail(q.parts)]
    ELSE IF q.root = <<>> /\ q.drv = <<>>
    THEN [drv |-> p.drv, root |-> p.root, parts |-> p.parts \o q.parts]
    ELSE [drv |-> q.drv, root |-> q.root, parts |-> q.parts]

\* PurePath.__truediv__: self / key, key a text or a path
PurePath_truediv(self, k) ==
    from_parsed_parts(join_parsed_parts(self, parse_args(k)))

\* relative_to: drive and root count as separate parts
abs_parts(p) == IF p.root # <<>> THEN <<p.drv, p.root>> \o Tail(p.parts) ELSE p.parts

\* PurePath.relative_to(other) returns (TRUE) or raises ValueError (FALSE)
PurePath_relative_to_ok(self, other) ==
    LET mine == abs_parts(self)
        to   == abs_parts(parse_args(other))
        n    == Len(to)
    IN  IF n = 0 THEN self.root = <<>> /\ self.drv = <<>>
        ELSE n <= Len(mine) /\ SubSeq(mine, 1, n) = to

\* PurePath.relative_to(other), where it does not raise
PurePath_relative_to(self, other) ==
    LET mine == abs_parts(self)
        n    == Len(abs_parts(parse_args(other)))
    IN  [t |-> "PureWindowsPath", drv |-> <<>>,
         root |-> IF n = 1 THEN self.root ELSE <<>>,
         parts |-> SubSeq(mine, n + 1, Len(mine))]

----------------------------------------------------------------------------
(* Values and outcomes *)

NoneV == [t |-> "None"]

Return(v) == [exc |-> "none", val |-> v]

Raise(e) == [exc |-> e, val |-> NoneV]

----------------------------------------------------------------------------
(* Source identifiers *)

\* every SourceIdentifier class of the module
IdentifierClasses ==
    {"SourceIdentifier", "FolderIdentifier", "FileSelectionIdentifier",
     "PACSResourceIdentifier", "StudyInstanceUIDIdentifier",
     "AccessionNumberIdentifier"}

\* the class attribute `key`
key ==
    [c \in IdentifierClasses |->
        CASE c = "SourceIdentifier"           -> <<"base">>
          [] c = "FolderIdentifier"           -> <<"folder">>
          [] c = "FileSelectionIdentifier"    -> <<"fileselection">>
          [] c = "PACSResourceIdentifier"     -> <<"pacs_resource">>
          [] c = "StudyInstanceUIDIdentifier" -> <<"study_instance_uid">>
          [] c = "AccessionNumberIdentifier"  -> <<"accession_number">>]

\* SourceIdentifier.__init__
SourceIdentifier(cls, identifier) ==
    [t |-> "SourceIdentifier", cls |-> cls, identifier |-> identifier]

\* SourceIdentifier.__str__
SourceIdentifier_str(id) == key[id.cls] \o <<":">> \o id.identifier

\* SourceIdentifierFactory.types
types ==
    <<"SourceIdentifier", "FolderIdentifier", "StudyInstanceUIDIdentifier",
      "AccessionNumberIdentifier", "FileSelectionIdentifier">>

\* parsing that falls back to the base class for an unknown key
get_source_identifier_for_key_fallback(text) ==
    LET parts == split_maxsplit1(text, ":")
    IN  IF Len(parts) # 2
        THEN Return(SourceIdentifier("SourceIdentifier", text))
        ELSE LET matches == {i \in DOMAIN types : key[types[i]] = parts[1]}
             IN  IF matches = {}
                 THEN Return(SourceIdentifier("SourceIdentifier", parts[2]))
                 ELSE Return(SourceIdentifier(
                        types[CHOOSE i \in matches : \A j \in matches : i <= j],
                        parts[2]))

\* SourceIdentifierFactory.get_source_identifier_for_key
get_source_identifier_for_key(text) ==
    LET parts == split_maxsplit1(text, ":")
    IN  IF Len(parts) # 2
        THEN Raise("UnknownSourceIdentifierException")
        ELSE LET matches == {i \in DOMAIN types : key[types[i]] = parts[1]}
             IN  IF matches = {}
                 THEN Raise("UnknownSourceIdentifierException")
                 ELSE Return(SourceIdentifier(
                        types[CHOOSE i \in matches : \A j \in matches : i <= j],
                        parts[2]))

\* SourceIdentifier.cast_to_subtype
cast_to_subtype(text) == get_source_identifier_for_key(text)

\* the class attribute `associated_object_class`, for the classes that have it
associated_object_class == [c \in {"FileSelectionIdentifier"} |-> "FileSelectionFile"]

\* an identifier made from another attribute of the object
from_object_description(cls, object) == SourceIdentifier(cls, object.description)

\* FileSelectionIdentifier.from_object
from_object(cls, object) == SourceIdentifier(cls, object.data_file_path)

\* SourceIdentifierFactory.get_source_identifier_for_obj
get_source_identifier_for_obj(object_in) ==
    LET claiming == {i \in DOMAIN types :
                        /\ types[i] \in DOMAIN associated_object_class
                        /\ associated_object_class[types[i]] = object_in.type}
    IN  IF claiming = {}
        THEN Raise("UnknownObjectException")
        ELSE Return(from_object(
                types[CHOOSE i \in claiming : \A j \in claiming : i <= j],
                object_in))

----------------------------------------------------------------------------
(* Parameters *)

Str(s) == [t |-> "str", s |-> s]

\* bool(value): None and the empty string are false; paths and identifiers
\* define neither __bool__ nor __len__ and are true
truthy(value) ==
    CASE value.t = "None" -> FALSE
      [] value.t = "str"  -> value.s # <<>>
      [] OTHER            -> TRUE

\* str(value)
py_str(value) ==
    CASE value.t = "None"             -> <<"None">>
      [] value.t = "str"              -> value.s
      [] value.t = "PureWindowsPath"  -> PurePath_str(value)
      [] value.t = "SourceIdentifier" -> SourceIdentifier_str(value)

COMMON_JOB_PARAMETERS ==
    <<"SourceIdentifierParameter", "PatientID", "PatientName", "Description">>

COMMON_GLOBAL_PARAMETERS ==
    <<"PIMSKey", "DestinationPath", "RootSourcePath", "Project">>

ALL_PARAMETERS == COMMON_JOB_PARAMETERS \o COMMON_GLOBAL_PARAMETERS

ParameterClasses == {ALL_PARAMETERS[i] : i \in DOMAIN ALL_PARAMETERS}

\* the class attribute `field_name`
field_name ==
    [c \in ParameterClasses |->
        CASE c = "PatientID"                 -> <<"patient_id">>
          [] c = "PatientName"               -> <<"patient_name">>
          [] c = "Description"               -> <<"description">>
          [] c = "PIMSKey"                   -> <<"pims_key">>
          [] c = "Project"                   -> <<"project">>
          [] c = "DestinationPath"           -> <<"destination_path">>
          [] c = "RootSourcePath"            -> <<"root_source_path">>
          [] c = "SourceIdentifierParameter" -> <<"source">>]

\* the class attribute `value_type`
value_type ==
    [c \in ParameterClasses |->
        CASE c \in {"DestinationPath", "RootSourcePath"} -> "PureWindowsPath"
          [] c = "SourceIdentifierParameter"            -> "SourceIdentifier"
          [] OTHER                                      -> "str"]

Parameter(cls, value) == [t |-> "Parameter", cls |-> cls, value |-> value]

\* self.value_type(value) in Parameter.__init__
value_type_call(cls, value) ==
    IF value_type[cls] = "PureWindowsPath"
    THEN IF value.t = "PureWindowsPath"
         THEN PureWindowsPath_of(value)
         ELSE PureWindowsPath(py_str(value))
    ELSE Str(py_str(value))

\* Parameter.__init__ and SourceIdentifierParameter.__init__
Parameter_init(cls, value) ==
    IF cls = "SourceIdentifierParameter"
    THEN LET r == cast_to_subtype(py_str(value))
         IN  IF r.exc # "none" THEN r ELSE Return(Parameter(cls, r.val))
    ELSE IF ~truthy(value)
         THEN Return(Parameter(cls, NoneV))
         ELSE Return(Parameter(cls, value_type_call(cls, value)))

\* Parameter.__str__
Parameter_str(p) ==
    field_name[p.cls] \o <<",">>
        \o (IF ~truthy(p.value) THEN <<>> ELSE py_str(p.value))

\* Parameter.has_value
has_value(p) == truthy(p.value)

\* parsing that lets the identifier factory's exception through
parse_from_key_value_unwrapped(k, value) ==
    LET matches == {i \in DOMAIN ALL_PARAMETERS : field_name[ALL_PARAMETERS[i]] = k}
    IN  IF matches = {}
        THEN Raise("ParameterParsingError")
        ELSE Parameter_init(
                ALL_PARAMETERS[CHOOSE i \in matches : \A j \in matches : i <= j],
                value)

\* ParameterFactory.parse_from_key_value
parse_from_key_value(k, value) ==
    LET matches == {i \in DOMAIN ALL_PARAMETERS : field_name[ALL_PARAMETERS[i]] = k}
    IN  IF matches = {}
        THEN Raise("ParameterParsingError")
        ELSE LET r == Parameter_init(
                        ALL_PARAMETERS[CHOOSE i \in matches : \A j \in matches : i <= j],
                        value)
             IN  IF r.exc = "UnknownSourceIdentifierException"
                 THEN Raise("ParameterParsingError")
                 ELSE r

\* parsing that unpacks string.split(",") without maxsplit
parse_from_string_split_all(string) ==
    LET parts == split(string, ",")
    IN  IF Len(parts) # 2
        THEN [out |-> Raise("ParameterParsingError"), inner |-> NoneV]
        ELSE [out   |-> parse_from_key_value(parts[1], Str(parts[2])),
              inner |-> [key |-> parts[1], value |-> Str(parts[2])]]

\* ParameterFactory.parse_from_string: its outcome and the call it passes on
parse_from_string(string) ==
    LET parts == split_maxsplit1(string, ",")
    IN  IF Len(parts) # 2
        THEN [out |-> Raise("ParameterParsingError"), inner |-> NoneV]
        ELSE [out   |-> parse_from_key_value(parts[1], Str(parts[2])),
              inner |-> [key |-> parts[1], value |-> Str(parts[2])]]

----------------------------------------------------------------------------
(* ParameterSet.  A python dict keyed by type(x) is kept as the sequence of *)
(* its values in insertion order: assigning to a key that is present       *)
(* replaces the value where it stands, a new key goes to the end.          *)

\* d[type(x)] = x
dict_set(d, x) ==
    IF \E i \in DOMAIN d : d[i].cls = x.cls
    THEN [i \in DOMAIN d |-> IF d[i].cls = x.cls THEN x ELSE d[i]]
    ELSE Append(d, x)

\* d.update({type(x): x for x in list})
RECURSIVE dict_update(_, _)
dict_update(d, list) ==
    IF list = <<>> THEN d
    ELSE dict_update(dict_set(d, Head(list)), Tail(list))

\* a set in which the defaults are written over the parameters
ParameterSet_init_defaults_last(parameters, default_parameters) ==
    [t |-> "ParameterSet",
     parameters |-> dict_update(dict_update(<<>>, parameters), default_parameters)]

\* a set that keeps both lists as they are
ParameterSet_init_concat(parameters, default_parameters) ==
    [t |-> "ParameterSet", parameters |-> default_parameters \o parameters]

\* ParameterSet.__init__ (an omitted default list is the empty list)
ParameterSet_init(parameters, default_parameters) ==
    [t |-> "ParameterSet",
     parameters |-> dict_update(dict_update(<<>>, default_parameters), parameters)]

\* every Parameter class of the module
AllParameterClasses == ParameterClasses \cup {"Parameter", "PathParameter"}

\* the base class of each Parameter class but the root
base ==
    [c \in AllParameterClasses \ {"Parameter"} |->
        IF c \in {"DestinationPath", "RootSourcePath", "SourceIdentifierParameter"}
        THEN "PathParameter"
        ELSE "Parameter"]

\* issubclass(c, type_in)
RECURSIVE issubclass(_, _)
issubclass(c, type_in) ==
    c = type_in \/ (c \in DOMAIN base /\ issubclass(base[c], type_in))

\* a match on the exact class only
isinstance_exact(x, type_in) == x.cls = type_in

\* isinstance(x, type_in)
isinstance(x, type_in) == issubclass(x.cls, type_in)

\* ParameterSet.get_params_by_type
get_params_by_type(self, type_in) ==
    LET matches(x) == isinstance(x, type_in)
    IN  SelectSeq(self.parameters, matches)

\* ParameterSet.get_param_by_type: next(..., None)
get_param_by_type(self, type_in) ==
    LET found == get_params_by_type(self, type_in)
    IN  IF found = <<>> THEN NoneV ELSE Head(found)

----------------------------------------------------------------------------
(* as_absolute.  Path is taken in its windows flavour, the flavour of the   *)
(* parameters' own value_type.                                             *)

\* the identifier classes deriving from PathIdentifier
PathIdentifierClasses == {"FolderIdentifier", "FileSelectionIdentifier"}

\* PathIdentifier.is_absolute
PathIdentifier_is_absolute(id) ==
    PurePath_is_absolute(PureWindowsPath_of(Str(id.identifier)))

\* PathParameter.is_absolute: self.value.is_absolute()
PathParameter_is_absolute(self) ==
    CASE self.value.t = "PureWindowsPath" ->
            Return(PurePath_is_absolute(self.value))
      [] self.value.t = "SourceIdentifier" /\ self.value.cls \in PathIdentifierClasses ->
            Return(PathIdentifier_is_absolute(self.value))
      [] OTHER -> Raise("AttributeError")

\* PathParameter.as_absolute
PathParameter_as_absolute(self, root_path) ==
    LET absolute == PathParameter_is_absolute(self)
    IN  IF absolute.exc # "none" THEN absolute
        ELSE IF absolute.val
        THEN IF PurePath_relative_to_ok(self.value, root_path)
             THEN Return(NoneV)
             ELSE Raise("ParameterException")
        ELSE Parameter_init(self.cls, PurePath_truediv(root_path, self.value))

\* SourceIdentifierParameter.as_absolute; the identifier of self.value is
\* a str, which has no relative_to
SourceIdentifierParameter_as_absolute(self, root_path) ==
    LET absolute == PathParameter_is_absolute(self)
        a_copy   == Parameter_init("SourceIdentifierParameter", self.value)
    IN  IF absolute.exc # "none" THEN absolute
        ELSE IF absolute.val
        THEN Raise("AttributeError")
        ELSE IF a_copy.exc # "none" THEN a_copy
        ELSE Return(Parameter(a_copy.val.cls,
                 SourceIdentifier(a_copy.val.value.cls,
                     PurePath_truediv(root_path, Str(a_copy.val.value.identifier)))))

\* parameter.as_absolute(root_path), by the class of the parameter
as_absolute(self, root_path) ==
    IF self.cls = "SourceIdentifierParameter"
    THEN SourceIdentifierParameter_as_absolute(self, root_path)
    ELSE PathParameter_as_absolute(self, root_path)

----------------------------------------------------------------------------
(* Inputs of the identifier factory *)

\* runtime types of the objects handed to the factory
ObjectTypes == {"FileSelectionFile", "FileSelectionFolder", "str"}

\* objects: a runtime type and the attributes of a file selection
Objects ==
    [t : {"object"}, type : ObjectTypes, data_file_path : Values,
     description : {<<>>, <<"x">>}]

\* what a caller may put in front of the value
KeyTexts == {key[c] : c \in IdentifierClasses} \cup {<<"x">>, <<>>}

\* identifier texts: a key-like head, with or without a colon, and a value
IdTexts ==
    {k \o v : k \in KeyTexts, v \in Values}
        \cup {k \o <<":">> \o v : k \in KeyTexts, v \in Values}

----------------------------------------------------------------------------
(* Inputs of the parameter factory *)

\* characters of path texts
PathChars == {"x", "/", "\\", ":"}

PathTexts == SeqsUpTo(PathChars, MaxPathLen)

\* what a caller may put in front of the comma
FieldTexts == {field_name[c] : c \in ParameterClasses} \cup {<<"x">>, <<>>}

\* value texts: free-form values and identifier texts
ValueTexts == Values \cup IdTexts

\* lines: a field-like head, with or without a comma, and a value text
Lines ==
    {k \o v : k \in FieldTexts, v \in ValueTexts}
        \cup {k \o <<",">> \o v : k \in FieldTexts, v \in ValueTexts}

\* what a caller may construct a parameter of class cls from
\* texts of identifiers that hold a path
PathIdTexts ==
    {key[c] \o <<":">> \o v : c \in PathIdentifierClasses, v \in PathTexts}

\* the root paths given to as_absolute
MaxRootLen == 3

RootChars == {"x", ":", "\\"}

RootPaths == {PureWindowsPath(text) : text \in SeqsUpTo(RootChars, MaxRootLen)}

ConstructorValues(cls) ==
    {NoneV} \cup {Str(v) : v \in
        CASE value_type[cls] = "PureWindowsPath"  -> Values \cup PathTexts
          [] value_type[cls] = "SourceIdentifier" -> IdTexts \cup PathIdTexts
          [] OTHER                                -> Values}

----------------------------------------------------------------------------
(* Inputs of ParameterSet *)

SetClasses == {"PatientID", "Project", "DestinationPath"}

SetValues == {Str(<<"x">>), Str(<<"x", "x">>)}

\* the parameters the lists are made of
ParameterPool == {Parameter_init(c, v).val : c \in SetClasses, v \in SetValues}

ParameterLists == SeqsUpTo(ParameterPool, MaxParams)

----------------------------------------------------------------------------
(* The mapping and its text.  A mapping holds a description, its options   *)
(* (a ParameterSet) and its rows, each row one parameter per class of      *)
(* COMMON_JOB_PARAMETERS in that order.  Its text is a sequence of lines:  *)
(* the description, one line per option and one line per parameter of each *)
(* row; every parameter line is written by Parameter.__str__ and read by   *)
(* ParameterFactory.parse_from_string.                                     *)

\* most rows of a mapping that is written and read back
MaxMappingRows == 2

\* a mapping
Mapping_init(description, options, rows) ==
    [t |-> "Mapping", description |-> description, options |-> options,
     rows |-> rows]

\* the lines of a list of parameters
parameter_lines(list) == [i \in DOMAIN list |-> Parameter_str(list[i])]

\* the lines of the rows, row after row
RECURSIVE row_lines(_)
row_lines(rows) ==
    IF rows = <<>> THEN <<>>
    ELSE parameter_lines(Head(rows)) \o row_lines(Tail(rows))

\* Mapping.serialize
serialize(m) ==
    <<m.description>> \o parameter_lines(m.options.parameters) \o row_lines(m.rows)

\* a parameter of one of the global options
is_option(p) == \E i \in DOMAIN COMMON_GLOBAL_PARAMETERS : COMMON_GLOBAL_PARAMETERS[i] = p.cls

\* a parameter of one of the columns of a row
is_column(p) == \E i \in DOMAIN COMMON_JOB_PARAMETERS : COMMON_JOB_PARAMETERS[i] = p.cls

\* a list of parameters cut into rows of the fixed column count
grid(list) ==
    LET width == Len(COMMON_JOB_PARAMETERS)
    IN  [k \in 1..(Len(list) \div width) |->
            SubSeq(list, (k - 1) * width + 1, k * width)]

\* the mapping of a description and the parameters read from the lines
\* after it: the options, and the rows in the order of their lines
mapping_of(description, list) ==
    Return(Mapping_init(description,
                        ParameterSet_init(SelectSeq(list, is_option), <<>>),
                        grid(SelectSeq(list, is_column))))

\* the whole load fails when a line did not parse
load(description, parsed) ==
    IF \E i \in DOMAIN parsed : parsed[i].exc # "none"
    THEN Raise("MappingLoadError")
    ELSE mapping_of(description, [i \in DOMAIN parsed |-> parsed[i].val])

\* Mapping.deserialize: the description, then one parameter per line
deserialize(text) ==
    IF text = <<>> THEN Raise("MappingLoadError")
    ELSE load(text[1],
              [i \in 1..(Len(text) - 1) |-> parse_from_string(text[i + 1]).out])

\* descriptions of a mapping
MappingDescriptions == {<<>>, <<"x">>}

\* the options of a mapping: a destination path and a project, each with
\* or without a value
MappingOptions ==
    {ParameterSet_init(
         <<Parameter_init("DestinationPath", v).val, Parameter_init("Project", w).val>>,
         <<>>) :
        v \in ConstructorValues("DestinationPath"), w \in {NoneV, Str(<<"x">>)}}

\* the rows a mapping is made of: a folder and a file selection
MappingRows ==
    {<<Parameter_init("SourceIdentifierParameter", Str(<<"folder", ":", "x">>)).val,
       Parameter_init("PatientID", Str(<<"x">>)).val,
       Parameter_init("PatientName", NoneV).val,
       Parameter_init("Description", Str(<<"x", ",", "x">>)).val>>,
      <<Parameter_init("SourceIdentifierParameter",
                       Str(<<"fileselection", ":", "x", ":", "\\", "x">>)).val,
       Parameter_init("PatientID", NoneV).val,
       Parameter_init("PatientName", Str(<<"x">>)).val,
       Parameter_init("Description", NoneV).val>>}

----------------------------------------------------------------------------
(* assert_job_parameters (anonapi/cli/create_commands.py).  The parameters  *)
(* object is a record of its attributes; the function assigns to the       *)
(* object it was given and returns it.                                     *)

\* bool(value) of an attribute: None, '' and an empty list are false
attribute_truthy(value) ==
    CASE value.t = "None" -> FALSE
      [] value.t = "str"  -> value.s # <<>>
      [] value.t = "list" -> value.items # <<>>

\* assert_job_parameters
assert_job_parameters(parameters) ==
    LET named == IF ~attribute_truthy(parameters.patient_name)
                 THEN [parameters EXCEPT !.patient_name = parameters.field_names]
                 ELSE parameters
    IN  IF named.description = NoneV
        THEN [named EXCEPT !.patient_name = Str(<<>>)]
        ELSE named

\* what a field read from disk may hold
FieldValues == {NoneV, Str(<<>>), Str(<<"x">>)}

\* what the attribute `field_names` of a parameters object may hold
FieldNameLists ==
    {[t |-> "list", items |-> <<"patient_id", "patient_name", "description">>]}

\* the parameters objects handed to assert_job_parameters
AnonymizationParameters ==
    [t : {"AnonymizationParameters"}, patient_id : FieldValues,
     patient_name : FieldValues, description : FieldValues,
     field_names : FieldNameLists]

----------------------------------------------------------------------------
(* The caller.  Every call is made from a fresh start; `arg` is what the    *)
(* call was given, `out` what it returned or raised, and `src` the object  *)
(* a parsed text was rendered from (NoneV when the text was free input);    *)
(* `inner` is the call parse_from_string passed on to parse_from_key_value *)
(* (NoneV when it made none).  After a method call on an object, `src` is  *)
(* that object as the call left it.                                        *)

\* no call made yet
CallIdle ==
    /\ op = "start"
    /\ arg = NoneV
    /\ out = Return(NoneV)
    /\ src = NoneV
    /\ inner = NoneV

\* no command run yet, no batch file in the folder, no job on any server
CreateIdle ==
    /\ pc = "idle"
    /\ settings = NoneV
    /\ mapping = <<>>
    /\ active_server = NoneV
    /\ created_job_ids = <<>>
    /\ results = <<>>
    /\ output = <<>>
    /\ batch_file = NoneV
    /\ jobs = {}
    /\ loaded = FALSE
    /\ confirmed = FALSE

\* no map command run yet, no mapping file in the folder
MapIdle ==
    /\ command = NoneV
    /\ result = Return(NoneV)
    /\ launched = FALSE
    /\ mapping_file = NoneV

Init == CallIdle /\ CreateIdle /\ MapIdle

\* SourceIdentifierFactory().get_source_identifier_for_key(text)
GetSourceIdentifierForKey ==
    /\ op = "start"
    /\ UNCHANGED <<createVars, mapVars>>
    /\ \E text \in IdTexts :
           /\ op' = "get_source_identifier_for_key"
           /\ arg' = [t |-> "str", s |-> text]
           /\ out' = get_source_identifier_for_key(text)
           /\ src' = NoneV
           /\ inner' = NoneV

\* str(identifier), for an identifier of any class of the module
StrIdentifier ==
    /\ op = "start"
    /\ UNCHANGED <<createVars, mapVars>>
    /\ \E c \in IdentifierClasses : \E v \in Values :
           /\ op' = "SourceIdentifier.__str__"
           /\ arg' = SourceIdentifier(c, v)
           /\ out' = Return([t |-> "str", s |-> SourceIdentifier_str(SourceIdentifier(c, v))])
           /\ src' = NoneV
           /\ inner' = NoneV

\* get_source_identifier_for_key applied to the text str(identifier) gave
ParseIdentifierText ==
    /\ op = "SourceIdentifier.__str__"
    /\ UNCHANGED <<createVars, mapVars>>
    /\ op' = "get_source_identifier_for_key"
    /\ arg' = out.val
    /\ out' = get_source_identifier_for_key(out.val.s)
    /\ src' = arg
    /\ inner' = NoneV

\* SourceIdentifierFactory().get_source_identifier_for_obj(object_in)
GetSourceIdentifierForObj ==
    /\ op = "start"
    /\ UNCHANGED <<createVars, mapVars>>
    /\ \E object_in \in Objects :
           /\ op' = "get_source_identifier_for_obj"
           /\ arg' = object_in
           /\ out' = get_source_identifier_for_obj(object_in)
           /\ src' = NoneV
           /\ inner' = NoneV

\* ParameterFactory.parse_from_key_value(key, value)
ParseFromKeyValue ==
    /\ op = "start"
    /\ UNCHANGED <<createVars, mapVars>>
    /\ \E k \in FieldTexts : \E v \in ValueTexts :
           /\ op' = "parse_from_key_value"
           /\ arg' = [key |-> k, value |-> Str(v)]
           /\ out' = parse_from_key_value(k, Str(v))
           /\ src' = NoneV
           /\ inner' = NoneV

\* ParameterFactory.parse_from_string(string)
ParseFromString ==
    /\ op = "start"
    /\ UNCHANGED <<createVars, mapVars>>
    /\ \E string \in Lines :
           /\ op' = "parse_from_string"
           /\ arg' = Str(string)
           /\ out' = parse_from_string(string).out
           /\ inner' = parse_from_string(string).inner
           /\ src' = NoneV

\* cls(value) for a parameter class of ALL_PARAMETERS
NewParameter ==
    /\ op = "start"
    /\ UNCHANGED <<createVars, mapVars>>
    /\ \E cls \in ParameterClasses : \E value \in ConstructorValues(cls) :
           /\ op' = "Parameter.__init__"
           /\ arg' = [cls |-> cls, value |-> value]
           /\ out' = Parameter_init(cls, value)
           /\ src' = NoneV
           /\ inner' = NoneV

\* str(parameter), for the parameter just constructed
StrParameter ==
    /\ op = "Parameter.__init__"
    /\ UNCHANGED <<createVars, mapVars>>
    /\ out.exc = "none"
    /\ op' = "Parameter.__str__"
    /\ arg' = out.val
    /\ out' = Return(Str(Parameter_str(out.val)))
    /\ src' = NoneV
    /\ inner' = NoneV

\* parse_from_string applied to the text str(parameter) gave
ParseParameterText ==
    /\ op = "Parameter.__str__"
    /\ UNCHANGED <<createVars, mapVars>>
    /\ op' = "parse_from_string"
    /\ arg' = out.val
    /\ out' = parse_from_string(out.val.s).out
    /\ inner' = parse_from_string(out.val.s).inner
    /\ src' = arg

\* a mapping built from valid parameters
NewMapping ==
    /\ op = "start"
    /\ UNCHANGED <<createVars, mapVars>>
    /\ \E description \in MappingDescriptions, options \in MappingOptions,
          rows \in SeqsUpTo(MappingRows, MaxMappingRows) :
           /\ op' = "Mapping.__init__"
           /\ arg' = NoneV
           /\ out' = Return(Mapping_init(description, options, rows))
           /\ src' = NoneV
           /\ inner' = NoneV

\* mapping.serialize(), for the mapping just built
Serialize ==
    /\ op = "Mapping.__init__"
    /\ UNCHANGED <<createVars, mapVars>>
    /\ op' = "serialize"
    /\ arg' = out.val
    /\ out' = Return([t |-> "text", lines |-> serialize(out.val)])
    /\ src' = NoneV
    /\ inner' = NoneV

\* deserialize applied to the text serialize gave
Deserialize ==
    /\ op = "serialize"
    /\ UNCHANGED <<createVars, mapVars>>
    /\ op' = "deserialize"
    /\ arg' = out.val
    /\ out' = deserialize(out.val.lines)
    /\ src' = arg
    /\ inner' = NoneV

\* assert_job_parameters(parameters)
AssertJobParameters ==
    /\ op = "start"
    /\ UNCHANGED <<createVars, mapVars>>
    /\ \E parameters \in AnonymizationParameters :
           /\ op' = "assert_job_parameters"
           /\ arg' = parameters
           /\ out' = Return(assert_job_parameters(parameters))
           /\ src' = NoneV
           /\ inner' = NoneV

\* ParameterSet(parameters, default_parameters)
NewParameterSet ==
    /\ op = "start"
    /\ UNCHANGED <<createVars, mapVars>>
    /\ \E parameters \in ParameterLists : \E default_parameters \in ParameterLists :
           /\ op' = "ParameterSet.__init__"
           /\ arg' = [parameters |-> parameters,
                      default_parameters |-> default_parameters]
           /\ out' = Return(ParameterSet_init(parameters, default_parameters))
           /\ src' = NoneV
           /\ inner' = NoneV

\* parameter_set.get_params_by_type(type_in), on the set just built
GetParamsByType ==
    /\ op = "ParameterSet.__init__"
    /\ UNCHANGED <<createVars, mapVars>>
    /\ \E type_in \in AllParameterClasses :
           /\ op' = "get_params_by_type"
           /\ arg' = [self |-> out.val, type_in |-> type_in]
           /\ out' = Return([t |-> "list",
                             items |-> get_params_by_type(out.val, type_in)])
           /\ src' = out.val
           /\ inner' = NoneV

\* parameter_set.get_param_by_type(type_in), on the set just built
GetParamByType ==
    /\ op = "ParameterSet.__init__"
    /\ UNCHANGED <<createVars, mapVars>>
    /\ \E type_in \in AllParameterClasses :
           /\ op' = "get_param_by_type"
           /\ arg' = [self |-> out.val, type_in |-> type_in]
           /\ out' = Return(get_param_by_type(out.val, type_in))
           /\ src' = out.val
           /\ inner' = NoneV

\* parameter.as_absolute(root_path), for the path parameter just constructed
AsAbsolute ==
    /\ op = "Parameter.__init__"
    /\ UNCHANGED <<createVars, mapVars>>
    /\ out.exc = "none"
    /\ issubclass(out.val.cls, "PathParameter")
    /\ \E root_path \in RootPaths :
           /\ op' = "as_absolute"
           /\ arg' = [self |-> out.val, root_path |-> root_path]
           /\ out' = as_absolute(out.val, root_path)
           /\ src' = out.val
           /\ inner' = NoneV

Next ==
    \/ GetSourceIdentifierForKey
    \/ StrIdentifier
    \/ ParseIdentifierText
    \/ GetSourceIdentifierForObj
    \/ ParseFromKeyValue
    \/ ParseFromString
    \/ NewParameter
    \/ StrParameter
    \/ ParseParameterText
    \/ NewParameterSet
    \/ GetParamsByType
    \/ GetParamByType
    \/ AsAbsolute
    \/ AssertJobParameters
    \/ NewMapping
    \/ Serialize
    \/ Deserialize

Spec == Init /\ [][Next]_vars

----------------------------------------------------------------------------
(* `create from-mapping` (anonapi/cli/create_commands.py).  A job id is a   *)
(* number the server hands out; `jobs` holds, as <<server url, job id>>,   *)
(* the jobs created so far.  `results` is what create_job_for_element      *)
(* returned or raised for the rows tried so far in this run, `output` the  *)
(* messages from_mapping and add_to_batch echoed outside the loop.         *)
(* `loaded` is whether get_mapping returned a mapping in this run and      *)
(* `confirmed` what the user answers when asked to confirm.                *)

\* most rows of a mapping
MaxRows == 3

\* largest job id a server hands out
MaxJobId == 2

JobIds == 1..MaxJobId

\* urls of the servers
Servers == {"a", "b"}

\* a settings field: missing, empty or filled
SettingValues == {NoneV, Str(<<>>), Str(<<"x">>)}

JobDefaultParameters ==
    [project_name : SettingValues, destination_path : SettingValues]

\* the classes of the sources of mapping rows
SourceClasses == {"FileSelectionIdentifier", "FolderIdentifier"}

MappingElement(source) == [source |-> source]

\* the elements of the mappings of the current folder
Mappings ==
    SeqsUpTo({MappingElement(SourceIdentifier(c, <<"x">>)) : c \in SourceClasses},
             MaxRows)

\* what client_tool.create_path_job does: a response with a job id, or an
\* error of the client or of the settings (no active server)
ClientResponses ==
    {Return(id) : id \in JobIds}
        \cup {Raise("APIClientException"), Raise("AnonClientSettingsException")}

set(list) == {list[i] : i \in DOMAIN list}

\* sorted(list(S)) for a set of numbers
RECURSIVE sorted(_)
sorted(S) ==
    IF S = {} THEN <<>>
    ELSE LET least == CHOOSE x \in S : \A y \in S : x <= y
         IN  <<least>> \o sorted(S \ {least})

JobBatch(job_ids, server) ==
    [t |-> "JobBatch", job_ids |-> job_ids, server |-> server]

\* get_default_parameters
get_default_parameters(job_default_parameters) ==
    IF ~truthy(job_default_parameters.project_name)
    THEN Raise("AnonClientSettingsException")
    ELSE IF ~truthy(job_default_parameters.destination_path)
    THEN Raise("AnonClientSettingsException")
    ELSE Return(job_default_parameters)

\* CreateCommandsContext.create_job_for_element, given what create_path_job
\* does when it is called; self has no attribute source_identifier
create_job_for_element(element, job_default_parameters, response) ==
    LET defaults == get_default_parameters(job_default_parameters)
    IN  IF defaults.exc # "none" THEN defaults
        ELSE IF element.source.cls = "FileSelectionIdentifier"
        THEN IF response.exc \in {"APIClientException", "AnonClientSettingsException"}
             THEN Raise("JobCreationException")
             ELSE response
        ELSE Raise("AttributeError")

\* whether create_job_for_element gets as far as calling create_path_job
calls_client(element, job_default_parameters) ==
    /\ get_default_parameters(job_default_parameters).exc = "none"
    /\ element.source.cls = "FileSelectionIdentifier"

\* CreateCommandsContext.add_to_batch, appending the new ids as they come
add_to_batch_append(file, server, ids) ==
    LET batch == IF file # NoneV THEN file ELSE JobBatch(<<>>, server)
    IN  IF batch.server # server
        THEN [batch_file |-> file, echo |-> "A batch exists in this folder, but for a different server"]
        ELSE [batch_file |-> JobBatch(batch.job_ids \o ids, batch.server),
              echo |-> "Saving job ids in batch in current folder"]

\* CreateCommandsContext.add_to_batch, merging whatever the server
add_to_batch_any_server(file, server, ids) ==
    LET batch == IF file # NoneV THEN file ELSE JobBatch(<<>>, server)
    IN  [batch_file |-> JobBatch(sorted(set(batch.job_ids) \cup set(ids)), batch.server),
         echo |-> "Saving job ids in batch in current folder"]

\* CreateCommandsContext.add_to_batch: the batch file it leaves and the
\* message it echoes
add_to_batch(file, server, ids) ==
    LET batch == IF file # NoneV THEN file ELSE JobBatch(<<>>, server)
    IN  IF batch.server # server
        THEN [batch_file |-> file, echo |-> "A batch exists in this folder, but for a different server"]
        ELSE [batch_file |-> JobBatch(sorted(set(batch.job_ids) \cup set(ids)), batch.server),
              echo |-> "Saving job ids in batch in current folder"]

\* from_mapping before its loop, going on whatever the user answers
from_mapping_checks_unasked(load_ok, job_default_parameters, confirm) ==
    IF ~load_ok THEN "MappingLoadError"
    ELSE IF get_default_parameters(job_default_parameters).exc # "none"
    THEN "Please use set-defaults te set them"
    ELSE ""

\* from_mapping before its loop: the message it returns with, or "" when
\* it goes on to create jobs
from_mapping_checks(load_ok, job_default_parameters, confirm) ==
    IF ~load_ok THEN "MappingLoadError"
    ELSE IF get_default_parameters(job_default_parameters).exc # "none"
    THEN "Please use set-defaults te set them"
    ELSE IF ~confirm THEN "Cancelled"
    ELSE ""

\* from_mapping, the loop going on after every outcome but a crash
after_element_continue(r) ==
    IF r.exc \in {"none", "JobCreationException"} THEN "loop" ELSE "crashed"

\* from_mapping, where the loop goes after one element: on, out by break,
\* or out of the command with the exception
after_element(r) ==
    CASE r.exc = "none"                 -> "loop"
      [] r.exc = "JobCreationException" -> "after_loop"
      [] OTHER                          -> "crashed"

\* from_mapping up to its loop
FromMapping ==
    /\ pc = "idle"
    /\ UNCHANGED <<callVars, mapVars>>
    /\ \E m \in Mappings, server \in Servers, load_ok \in BOOLEAN,
          job_default_parameters \in JobDefaultParameters, confirm \in BOOLEAN :
           LET message == from_mapping_checks(load_ok, job_default_parameters, confirm)
           IN  /\ active_server' = server
               /\ settings' = job_default_parameters
               /\ mapping' = IF load_ok THEN m ELSE <<>>
               /\ pc' = IF message = "" THEN "loop" ELSE "done"
               /\ output' = IF message = "" THEN <<>> ELSE <<message>>
               /\ loaded' = load_ok
               /\ confirmed' = confirm
               /\ UNCHANGED <<created_job_ids, results, batch_file, jobs>>

\* from_mapping, one turn of its loop
CreateJobForElement ==
    /\ pc = "loop"
    /\ Len(results) < Len(mapping)
    /\ UNCHANGED <<callVars, mapVars>>
    /\ \E response \in ClientResponses :
           LET element == mapping[Len(results) + 1]
               r == create_job_for_element(element, settings, response)
           IN  /\ results' = Append(results, r)
               /\ created_job_ids' = IF r.exc = "none"
                                     THEN Append(created_job_ids, r.val)
                                     ELSE created_job_ids
               /\ jobs' = IF calls_client(element, settings) /\ response.exc = "none"
                          THEN jobs \cup {<<active_server, response.val>>}
                          ELSE jobs
               /\ pc' = after_element(r)
               /\ UNCHANGED <<settings, mapping, active_server, output, batch_file,
                              loaded, confirmed>>

\* from_mapping after its loop
RecordBatch ==
    /\ pc = "after_loop" \/ (pc = "loop" /\ Len(results) = Len(mapping))
    /\ UNCHANGED <<callVars, mapVars>>
    /\ LET added == add_to_batch(batch_file, active_server, created_job_ids)
       IN  /\ batch_file' = IF created_job_ids # <<>> THEN added.batch_file
                            ELSE batch_file
           /\ output' = <<"created">>
                            \o (IF created_job_ids # <<>> THEN <<added.echo>> ELSE <<>>)
                            \o <<"Done">>
    /\ pc' = "done"
    /\ UNCHANGED <<settings, mapping, active_server, created_job_ids, results, jobs,
                   loaded, confirmed>>

\* the command is over; the batch file and the servers' jobs stay
NextCommand ==
    /\ pc \in {"done", "crashed"}
    /\ UNCHANGED <<callVars, mapVars>>
    /\ pc' = "idle"
    /\ settings' = NoneV
    /\ mapping' = <<>>
    /\ active_server' = NoneV
    /\ created_job_ids' = <<>>
    /\ results' = <<>>
    /\ output' = <<>>
    /\ loaded' = FALSE
    /\ confirmed' = FALSE
    /\ UNCHANGED <<batch_file, jobs>>

NextCreate ==
    \/ FromMapping
    \/ CreateJobForElement
    \/ RecordBatch
    \/ NextCommand

SpecCreate == Init /\ [][NextCreate]_vars

----------------------------------------------------------------------------
(* The `map` commands (anonapi/cli/map_commands.py).  `mapping_file` is the *)
(* mapping saved in the current folder (NoneV when there is none),         *)
(* `command` the command just run, `result` what its body returned or      *)
(* raised and `launched` whether it opened the editor.                     *)

\* most rows a mapping file gets
MaxMapRows == 4

\* MapCommandContext.current_path
current_path == PureWindowsPath(<<"x", ":", "\\">>)

\* an exception with its message
RaiseWith(e, message) == [exc |-> e, val |-> Str(<<message>>)]

Mapping(rows) == [t |-> "Mapping", rows |-> rows]

\* a row: source, pseudo name, pseudo id and description
Row(source, name) ==
    <<source, Parameter("PseudoName", Str(name)), Parameter("PseudoID", Str(name)),
      Parameter("Description", Str(name))>>

\* the rows of the example mapping
ExampleJobParameterGrid ==
    <<Row(Parameter_init("SourceIdentifierParameter", Str(<<"folder", ":", "x">>)).val, <<"x">>),
      Row(Parameter_init("SourceIdentifierParameter", Str(<<"folder", ":", "x", "x">>)).val, <<"x">>)>>

\* MappingFolder.has_mapping
has_mapping(file) == file # NoneV

\* MappingFolder.get_mapping
get_mapping(file) ==
    IF has_mapping(file) THEN Return(file) ELSE Raise("MappingLoadError")

\* MappingFolder.make_relative
make_relative(folder, path) ==
    IF PurePath_relative_to_ok(PureWindowsPath_of(path), folder)
    THEN Return(PurePath_relative_to(PureWindowsPath_of(path), folder))
    ELSE Raise("MapperException")

\* Mapping.add_row
add_row(m, row) == Mapping(Append(m.rows, row))

\* what random_string, random_intstring and today give
RandomStrings == {<<"x">>}

\* a text that can be the path of a file: a colon only after a drive letter
IsFilePath(text) ==
    \A i \in DOMAIN text :
        text[i] = ":" => i = 2 /\ text[1] \in drive_letters

\* the selection files a user names
FileSelectionFiles ==
    {[t |-> "object", type |-> "FileSelectionFile", data_file_path |-> path,
      description |-> <<>>] :
        path \in {text \in SeqsUpTo(RootChars, MaxPathLen) : IsFilePath(text)}}

\* a command's effect: the mapping file it leaves, what its body returns or
\* raises, and whether it launched the editor
Effect(file, r, l) == [mapping_file |-> file, result |-> r, launched |-> l]

\* status
status(file) ==
    LET m == get_mapping(file)
    IN  Effect(file, IF m.exc # "none" THEN m ELSE Return(NoneV), FALSE)

\* create_example_mapping
create_example_mapping == Mapping(ExampleJobParameterGrid)

\* init
init(file) == Effect(create_example_mapping, Return(NoneV), FALSE)

\* delete without the look at has_mapping
delete_unchecked(file) == Effect(NoneV, Return(NoneV), FALSE)

\* delete
delete(file) ==
    IF ~has_mapping(file)
    THEN Effect(file, RaiseWith("ClickException", "No mapping defined in current folder"),
                FALSE)
    ELSE Effect(NoneV, Return(NoneV), FALSE)

\* edit
edit(file) ==
    IF has_mapping(file) THEN Effect(file, Return(NoneV), TRUE)
    ELSE Effect(file, Return(NoneV), FALSE)

\* add_selection adding the row whatever make_relative says
add_selection_anyway(file, selection, random) ==
    LET m == get_mapping(file)
        identifier == get_source_identifier_for_obj(selection)
    IN  IF m.exc # "none" THEN Effect(file, m, FALSE)
        ELSE IF identifier.exc # "none" THEN Effect(file, identifier, FALSE)
        ELSE LET source == Parameter_init("SourceIdentifierParameter", identifier.val)
             IN  IF source.exc # "none" THEN Effect(file, source, FALSE)
                 ELSE Effect(add_row(m.val, Row(source.val, random)), Return(NoneV), FALSE)

\* add_selection keeping the identifier as the selection gave it
add_selection_absolute(file, selection, random) ==
    LET m == get_mapping(file)
        identifier == get_source_identifier_for_obj(selection)
    IN  IF m.exc # "none" THEN Effect(file, m, FALSE)
        ELSE IF identifier.exc # "none" THEN Effect(file, identifier, FALSE)
        ELSE LET relative == make_relative(current_path, Str(identifier.val.identifier))
             IN  IF relative.exc # "none" THEN Effect(file, Raise("BadParameter"), FALSE)
                 ELSE LET source == Parameter_init("SourceIdentifierParameter", identifier.val)
                      IN  IF source.exc # "none" THEN Effect(file, source, FALSE)
                          ELSE Effect(add_row(m.val, Row(source.val, random)),
                                      Return(NoneV), FALSE)

\* add_selection
add_selection(file, selection, random) ==
    LET m == get_mapping(file)
        identifier == get_source_identifier_for_obj(selection)
    IN  IF m.exc # "none" THEN Effect(file, m, FALSE)
        ELSE IF identifier.exc # "none" THEN Effect(file, identifier, FALSE)
        ELSE LET relative == make_relative(current_path, Str(identifier.val.identifier))
             IN  IF relative.exc # "none" THEN Effect(file, Raise("BadParameter"), FALSE)
                 ELSE LET source == Parameter_init("SourceIdentifierParameter",
                                        SourceIdentifier(identifier.val.cls,
                                                         PurePath_str(relative.val)))
                      IN  IF source.exc # "none" THEN Effect(file, source, FALSE)
                          ELSE Effect(add_row(m.val, Row(source.val, random)),
                                      Return(NoneV), FALSE)

\* most folders one add_study_folders is run with
MaxFolders == 2

\* the name of the selection file written into a folder
selection_file_name == <<"x">>

\* create_dicom_selection: the selection file it writes into the folder, or
\* what it raises when the folder cannot be read
create_dicom_selection(folder) ==
    IF folder.readable
    THEN Return([t |-> "FileSelectionFile",
                 data_file_path |-> PurePath_truediv(folder.path, Str(selection_file_name))])
    ELSE Raise("OSError")

\* SourceIdentifierParameter.init_from_source_identifier
init_from_source_identifier(identifier) ==
    Parameter("SourceIdentifierParameter", identifier)

\* ParameterFactory.generate_pseudo_name
generate_pseudo_name(random) == Parameter("PseudoName", Str(random))

\* find_dicom_files, from the path of the selection file on: the
\* parameter that refers to the selection, by a path relative to cwd when
\* the path is absolute
selection_parameter(path, cwd) ==
    IF PurePath_is_absolute(path) /\ ~PurePath_relative_to_ok(path, cwd)
    THEN Raise("ValueError")
    ELSE Return(init_from_source_identifier(
             SourceIdentifier("FileSelectionIdentifier",
                 PurePath_str(IF PurePath_is_absolute(path)
                              THEN PurePath_relative_to(path, cwd)
                              ELSE path))))

\* find_dicom_files, after create_dicom_selection returned or raised
relative_selection(file_selection, cwd) ==
    IF file_selection.exc # "none" THEN file_selection
    ELSE selection_parameter(file_selection.val.data_file_path, cwd)

\* find_dicom_files(path, cwd=cwd), for a cwd that is given
find_dicom_files(folder, cwd) ==
    relative_selection(create_dicom_selection(folder), cwd)

\* the row add_study_folders makes for a folder
folder_row(fileselection, random) ==
    <<fileselection, generate_pseudo_name(random), generate_pseudo_name(random)>>

\* add_study_folders, the loop going on after save_mapping
RECURSIVE add_study_folders_loop(_, _, _, _)
add_study_folders_saved(saved, paths, random) ==
    add_study_folders_loop(saved, saved, paths, random)

\* add_study_folders, one turn of its loop after find_dicom_files returned
\* or raised: the row is appended to the mapping in memory and the mapping
\* is saved
add_study_folders_turn(file, m, fileselection, paths, random) ==
    IF fileselection.exc # "none" THEN Effect(file, fileselection, FALSE)
    ELSE add_study_folders_saved(
             Mapping(Append(m.rows, folder_row(fileselection.val, random))),
             paths, random)

\* add_study_folders, its loop over the paths left: `file` is the mapping
\* on disk, m the mapping in memory
add_study_folders_loop(file, m, paths, random) ==
    IF paths = <<>> THEN Effect(file, Return(NoneV), FALSE)
    ELSE add_study_folders_turn(file, m,
                                find_dicom_files(Head(paths), current_path),
                                Tail(paths), random)

\* add_study_folders from get_current_mapping on
add_study_folders_from(m, file, paths, random) ==
    IF m.exc # "none" THEN Effect(file, m, FALSE)
    ELSE add_study_folders_loop(file, m.val, paths, random)

\* the effect of a command that saves only when nothing failed
unsaved_on_failure(file, e) ==
    IF e.result.exc # "none" THEN Effect(file, e.result, FALSE) ELSE e

\* add_study_folders saving the mapping once, after the last path
add_study_folders_save_last(file, paths, random) ==
    unsaved_on_failure(file, add_study_folders_from(get_mapping(file), file, paths, random))

\* add_study_folders, with the paths of its wildcards in one list
add_study_folders(file, paths, random) ==
    add_study_folders_from(get_mapping(file), file, paths, random)

\* the folders a user names: one inside the current folder, one named by
\* a relative path and one on a share; each readable or not
StudyFolders ==
    [path : {PureWindowsPath(<<"x", ":", "\\">>), PureWindowsPath(<<"x">>),
             PureWindowsPath(<<"\\", "\\", "x", "\\", "x", "\\">>)},
     readable : BOOLEAN]

\* a command was run with this effect
Ran(name, args, effect) ==
    /\ command' = [name |-> name, args |-> args]
    /\ mapping_file' = effect.mapping_file
    /\ result' = effect.result
    /\ launched' = effect.launched
    /\ UNCHANGED <<callVars, createVars>>

MapStatus == Ran("status", <<>>, status(mapping_file))

MapInit == Ran("init", <<>>, init(mapping_file))

MapDelete == Ran("delete", <<>>, delete(mapping_file))

MapEdit == Ran("edit", <<>>, edit(mapping_file))

MapAddSelection ==
    /\ has_mapping(mapping_file) => Len(mapping_file.rows) < MaxMapRows
    /\ \E selection \in FileSelectionFiles, random \in RandomStrings :
           Ran("add_selection", <<selection>>,
               add_selection(mapping_file, selection, random))

MapAddStudyFolders ==
    \E paths \in SeqsUpTo(StudyFolders, MaxFolders), random \in RandomStrings :
        /\ has_mapping(mapping_file) =>
               Len(mapping_file.rows) + Len(paths) <= MaxMapRows
        /\ Ran("add_study_folders", paths,
               add_study_folders(mapping_file, paths, random))

NextMap ==
    \/ MapStatus
    \/ MapInit
    \/ MapDelete
    \/ MapEdit
    \/ MapAddSelection

SpecMap == Init /\ [][NextMap]_vars

\* the commands run in a folder whose mapping gets its rows from study
\* folders
NextFolders ==
    \/ MapStatus
    \/ MapInit
    \/ MapDelete
    \/ MapEdit
    \/ MapAddStudyFolders

SpecFolders == Init /\ [][NextFolders]_vars

----------------------------------------------------------------------------
(* Claims about the identifier factory *)

RegisteredClasses == {types[i] : i \in DOMAIN types}

IsPrefix(p, s) == Len(p) <= Len(s) /\ SubSeq(s, 1, Len(p)) = p

\* C1: parsing "k:v" for a registered kind k returns an identifier of kind k
\* whose value is exactly v, also when v itself contains colons: the text is
\* split at the first colon only.
C1_SplitAtFirstColon ==
    op = "get_source_identifier_for_key" =>
        \A c \in RegisteredClasses : \A v \in Values :
            arg.s = key[c] \o <<":">> \o v
                => out = Return(SourceIdentifier(c, v))

\* a registered kind was parsed with a value that contains a colon
C1_Witness ==
    /\ op = "get_source_identifier_for_key"
    /\ out.exc = "none"
    /\ out.val.cls = "FileSelectionIdentifier"
    /\ Contains(out.val.identifier, ":")

\* C2: parsing raises UnknownSourceIdentifierException and returns nothing
\* whenever the text has no colon or the part before its first colon is not
\* the key of a registered identifier class.
C2_UnknownKeyRaises ==
    op = "get_source_identifier_for_key" =>
        ((\/ ~Contains(arg.s, ":")
          \/ \A c \in RegisteredClasses : ~IsPrefix(key[c] \o <<":">>, arg.s))
            => out = Raise("UnknownSourceIdentifierException"))

\* a text with a colon whose kind is not registered was rejected
C2_Witness ==
    /\ op = "get_source_identifier_for_key"
    /\ Contains(arg.s, ":")
    /\ \A c \in RegisteredClasses : ~IsPrefix(key[c] \o <<":">>, arg.s)
    /\ out.exc = "UnknownSourceIdentifierException"

\* C3: for each of the six identifier classes (base, folder, pacs_resource,
\* study_instance_uid, accession_number, fileselection) and every value,
\* rendering the identifier as text and parsing the text back returns an
\* identifier of the same class with the same value.
C3_IdentifierRoundTrip ==
    (op = "get_source_identifier_for_key" /\ src # NoneV) => out = Return(src)

\* C4: get_source_identifier_for_obj returns, for an object whose runtime
\* type is the associated object class of a registered identifier class, an
\* identifier of that class (fileselection) whose value is the object's
\* data_file_path, and raises UnknownObjectException for any other object.
C4_IdentifierForObject ==
    op = "get_source_identifier_for_obj" =>
        IF \E c \in RegisteredClasses \cap DOMAIN associated_object_class :
                associated_object_class[c] = arg.type
        THEN out = Return(SourceIdentifier("FileSelectionIdentifier",
                                           arg.data_file_path))
        ELSE out = Raise("UnknownObjectException")

\* a loaded file selection was turned into a fileselection identifier
C4_Witness ==
    /\ op = "get_source_identifier_for_obj"
    /\ arg.type = "FileSelectionFile"
    /\ arg.data_file_path # arg.description
    /\ out.exc = "none"
    /\ out.val.cls = "FileSelectionIdentifier"

----------------------------------------------------------------------------
(* Claims about the parameter factory *)

\* C5: parse_from_string splits a line at its first comma only: the field
\* name it passes on has no comma, the value it passes on is the whole rest
\* of the line (commas included), and the outcome is that of
\* parse_from_key_value on the two; a line without a comma raises
\* ParameterParsingError and nothing is passed on.
C5_SplitAtFirstComma ==
    (op = "parse_from_string" /\ src = NoneV) =>
        IF Contains(arg.s, ",")
        THEN /\ inner # NoneV
             /\ ~Contains(inner.key, ",")
             /\ inner.key \o <<",">> \o inner.value.s = arg.s
             /\ out = parse_from_key_value(inner.key, inner.value)
        ELSE /\ inner = NoneV
             /\ out = Raise("ParameterParsingError")

\* a line with a second comma gave a parameter whose value keeps that comma
C5_Witness ==
    /\ op = "parse_from_string"
    /\ src = NoneV
    /\ out.exc = "none"
    /\ out.val.value.t = "str"
    /\ Contains(out.val.value.s, ",")

\* C6: parse_from_key_value either returns a parameter whose field_name is
\* the one given or raises ParameterParsingError; an unrecognized field_name
\* and a source value the identifier factory rejects both raise
\* ParameterParsingError, never UnknownSourceIdentifierException.
C6_TwoOutcomes ==
    op = "parse_from_key_value" =>
        /\ \/ /\ out.exc = "none"
              /\ out.val.t = "Parameter"
              /\ field_name[out.val.cls] = arg.key
           \/ out = Raise("ParameterParsingError")
        /\ (\A c \in ParameterClasses : field_name[c] # arg.key)
                => out = Raise("ParameterParsingError")
        /\ (/\ arg.key = <<"source">>
            /\ get_source_identifier_for_key(arg.value.s).exc # "none")
                => out = Raise("ParameterParsingError")

\* a source value that is no valid identifier text was rejected
C6_Witness ==
    /\ op = "parse_from_key_value"
    /\ arg.key = <<"source">>
    /\ arg.value.s # <<>>
    /\ get_source_identifier_for_key(arg.value.s).exc
            = "UnknownSourceIdentifierException"
    /\ out.exc = "ParameterParsingError"

\* C7: for each of the eight field names, constructing the parameter with an
\* empty or absent value, or parsing the text "<field_name>,", succeeds and
\* gives a parameter of that class whose value is absent.
C7_EmptyValueIsValid ==
    /\ (/\ op = "Parameter.__init__"
        /\ arg.value \in {NoneV, Str(<<>>)})
            => /\ out.exc = "none"
               /\ out.val.cls = arg.cls
               /\ ~has_value(out.val)
    /\ \A c \in ParameterClasses :
            (op = "parse_from_string" /\ arg.s = field_name[c] \o <<",">>)
                => /\ out.exc = "none"
                   /\ out.val.cls = c
                   /\ ~has_value(out.val)

\* equal values: both absent, equal strings, equal paths (PurePath.__eq__),
\* or identifiers of the same class with the same value
value_eq(v, w) ==
    /\ v.t = w.t
    /\ IF v.t = "PureWindowsPath" THEN PurePath_eq(v, w) ELSE v = w

\* C8: the text of a parameter p of a registered class is
\* "<field_name>,<value-or-empty>", and parse_from_string of that text
\* returns a parameter of the same class with an equal value.
C8_ParameterRoundTrip ==
    /\ op = "Parameter.__str__" =>
            out.val.s = field_name[arg.cls] \o <<",">>
                \o (IF arg.value = NoneV THEN <<>> ELSE py_str(arg.value))
    /\ (op = "parse_from_string" /\ src # NoneV) =>
            /\ out.exc = "none"
            /\ out.val.cls = src.cls
            /\ value_eq(out.val.value, src.value)

----------------------------------------------------------------------------
(* Claims about ParameterSet *)

\* the classes of the parameters of a list
ClassesOf(list) == {list[i].cls : i \in DOMAIN list}

\* the last parameter of class c in a list that has one
LastOf(list, c) ==
    list[CHOOSE i \in DOMAIN list :
            list[i].cls = c /\ \A j \in DOMAIN list : list[j].cls = c => j <= i]

\* C9: for every class present in the explicit list the set holds the
\* parameter given there (the last one given, never the default), and for
\* every class present only in the default list it holds the default.
C9_DefaultsPrecedence ==
    op = "ParameterSet.__init__" =>
        LET held == out.val.parameters
        IN  /\ \A c \in ClassesOf(arg.parameters) :
                    /\ c \in ClassesOf(held)
                    /\ \A i \in DOMAIN held :
                            held[i].cls = c => held[i] = LastOf(arg.parameters, c)
            /\ \A c \in ClassesOf(arg.default_parameters) \ ClassesOf(arg.parameters) :
                    /\ c \in ClassesOf(held)
                    /\ \A i \in DOMAIN held :
                            held[i].cls = c
                                => held[i] = LastOf(arg.default_parameters, c)

\* an explicit value beat a different default, and another default was kept
C9_Witness ==
    /\ op = "ParameterSet.__init__"
    /\ \E c \in ClassesOf(arg.parameters) \cap ClassesOf(arg.default_parameters) :
            LastOf(arg.parameters, c) # LastOf(arg.default_parameters, c)
    /\ ClassesOf(arg.default_parameters) \ ClassesOf(arg.parameters) # {}

\* C10: no two parameters of a set have the same class, and every class that
\* occurs in the explicit or the default list occurs exactly once in the set.
C10_OnePerClass ==
    op = "ParameterSet.__init__" =>
        LET held == out.val.parameters
        IN  /\ \A i, j \in DOMAIN held : held[i].cls = held[j].cls => i = j
            /\ ClassesOf(held)
                    = ClassesOf(arg.parameters) \cup ClassesOf(arg.default_parameters)

\* both lists repeated a class and a set was built from them
C10_Witness ==
    /\ op = "ParameterSet.__init__"
    /\ \E i, j \in DOMAIN arg.parameters :
            i # j /\ arg.parameters[i].cls = arg.parameters[j].cls
    /\ \E i, j \in DOMAIN arg.default_parameters :
            /\ i # j
            /\ arg.default_parameters[i].cls = arg.default_parameters[j].cls
            /\ arg.default_parameters[i].cls = arg.parameters[1].cls
    /\ Len(out.val.parameters) = 1

\* the classes that are type_in or derive from it
SubclassesOf(type_in) ==
    CASE type_in = "Parameter"     -> AllParameterClasses
      [] type_in = "PathParameter" ->
            {"PathParameter", "DestinationPath", "RootSourcePath",
             "SourceIdentifierParameter"}
      [] OTHER                     -> {type_in}

\* the positions of a set's parameters that match type_in
MatchingPositions(self, type_in) ==
    {i \in DOMAIN self.parameters : self.parameters[i].cls \in SubclassesOf(type_in)}

\* the k-th smallest member of a set of numbers
KthOf(S, k) == CHOOSE i \in S : Cardinality({j \in S : j < i}) = k - 1

\* C11: get_params_by_type(T) returns exactly the parameters of the set whose
\* class is T or derives from T, in the set's order, and get_param_by_type(T)
\* returns the first of them, or None exactly when there is none; neither
\* changes the set.
C11_TypedLookup ==
    /\ op = "get_params_by_type" =>
            LET at == MatchingPositions(arg.self, arg.type_in)
            IN  /\ Len(out.val.items) = Cardinality(at)
                /\ \A k \in 1..Len(out.val.items) :
                        out.val.items[k] = arg.self.parameters[KthOf(at, k)]
                /\ src = arg.self
    /\ op = "get_param_by_type" =>
            LET at == MatchingPositions(arg.self, arg.type_in)
            IN  /\ out.exc = "none"
                /\ out.val = IF at = {} THEN NoneV
                             ELSE arg.self.parameters[KthOf(at, 1)]
                /\ src = arg.self

\* a query for a base class found its one subclass member behind another
\* parameter of the set
C11_Witness ==
    /\ op = "get_param_by_type"
    /\ arg.type_in = "PathParameter"
    /\ Len(arg.self.parameters) >= 2
    /\ arg.self.parameters[1].cls # "DestinationPath"
    /\ out.val # NoneV
    /\ out.val.cls = "DestinationPath"

----------------------------------------------------------------------------
(* Claims about as_absolute *)

\* the path a path-valued parameter holds, its identifier being a text
PathOf(p) ==
    IF p.value.t = "PureWindowsPath" THEN p.value
    ELSE PureWindowsPath(p.value.identifier)

\* the path a parameter returned by as_absolute holds
ReturnedPathOf(p) ==
    IF p.value.t = "PureWindowsPath" THEN p.value ELSE p.value.identifier

\* root joined with the value a path-valued parameter holds
Joined(root_path, p) ==
    IF p.value.t = "PureWindowsPath"
    THEN PurePath_truediv(root_path, p.value)
    ELSE PurePath_truediv(root_path, Str(p.value.identifier))

\* a parameter holding a path: a path value or a path identifier
IsPathValued(p) ==
    \/ p.value.t = "PureWindowsPath"
    \/ p.value.t = "SourceIdentifier" /\ p.value.cls \in PathIdentifierClasses

\* C12: as_absolute(root) on a path-valued parameter, when it does not
\* fail, returns a parameter of the same variant: for a relative value its
\* value is root joined with the original value, for an absolute value
\* under root it is that same absolute value.
C12_AsAbsoluteReturnsCopy ==
    (op = "as_absolute" /\ IsPathValued(arg.self) /\ out.exc = "none") =>
        /\ out.val.t = "Parameter"
        /\ out.val.cls = arg.self.cls
        /\ out.val.value.t = arg.self.value.t
        /\ IF PurePath_is_absolute(PathOf(arg.self))
           THEN PurePath_eq(ReturnedPathOf(out.val), PathOf(arg.self))
           ELSE PurePath_eq(ReturnedPathOf(out.val), Joined(arg.root_path, arg.self))

\* C13: as_absolute(root) on a path-valued parameter whose value is
\* absolute and not under root raises ParameterException, and the parameter
\* keeps its value.
C13_NotUnderRootRaises ==
    (/\ op = "as_absolute" /\ IsPathValued(arg.self)
     /\ PurePath_is_absolute(PathOf(arg.self))
     /\ ~PurePath_relative_to_ok(PathOf(arg.self), arg.root_path)) =>
        /\ out.exc = "ParameterException"
        /\ src = arg.self

----------------------------------------------------------------------------
(* Claims about `create from-mapping` and the batch file *)

IsSortedUnique(ids) == \A i, j \in DOMAIN ids : i < j => ids[i] < ids[j]

\* the ids the batch file holds
StoredIds(file) == IF file = NoneV THEN {} ELSE set(file.job_ids)

\* the step in which from_mapping calls add_to_batch
AddsToBatch ==
    /\ pc \in {"loop", "after_loop"}
    /\ pc' = "done"
    /\ created_job_ids # <<>>

\* the batch add_to_batch works on is one of the active server
SameServer == batch_file = NoneV \/ batch_file.server = active_server

\* C14: a merge into a batch of the same server stores the sorted,
\* duplicate-free union of the stored and the new ids; merging the same new
\* ids again changes nothing; the stored ids are always sorted and unique.
C14_BatchMerge ==
    /\ [](batch_file # NoneV => IsSortedUnique(batch_file.job_ids))
    /\ [][(AddsToBatch /\ SameServer) =>
            /\ batch_file' # NoneV
            /\ IsSortedUnique(batch_file'.job_ids)
            /\ StoredIds(batch_file') = StoredIds(batch_file) \cup set(created_job_ids)
            /\ add_to_batch(batch_file', active_server, created_job_ids).batch_file
                    = batch_file']_vars

C14_Witness ==
    /\ pc = "done"
    /\ Len(output) = 3 /\ output[2] = "Saving job ids in batch in current folder"
    /\ created_job_ids = <<2, 2>>
    /\ batch_file.job_ids = <<1, 2>>

\* C15: with a batch on disk for a server of another url, add_to_batch
\* leaves the batch file as it is and the command ends with a warning, not
\* an error; every id in the batch file was created on the batch's server.
C15_OtherServerNotMerged ==
    /\ [](batch_file # NoneV =>
            \A id \in set(batch_file.job_ids) : <<batch_file.server, id>> \in jobs)
    /\ [][(AddsToBatch /\ ~SameServer) =>
            /\ batch_file' = batch_file
            /\ pc' = "done"
            /\ output' = <<"created",
                           "A batch exists in this folder, but for a different server",
                           "Done">>]_vars

C15_Witness ==
    /\ pc = "done"
    /\ Len(output) = 3
    /\ output[2] = "A batch exists in this folder, but for a different server"
    /\ batch_file.server # active_server
    /\ \E id \in set(created_job_ids) :
            id \notin set(batch_file.job_ids) /\ <<batch_file.server, id>> \notin jobs

\* the first row whose creation raised JobCreationException, 0 if none
FirstFailure ==
    LET failed == {k \in DOMAIN results : results[k].exc = "JobCreationException"}
    IN  IF failed = {} THEN 0 ELSE CHOOSE k \in failed : \A j \in failed : k <= j

\* C16: when row k is the first whose creation raises JobCreationException,
\* creation was requested for rows 1..k and no other, the created ids are
\* those of rows 1..k-1 in row order, and these are what add_to_batch merges
\* into a batch of the active server.
C16_PartialBatch ==
    /\ [](FirstFailure # 0 =>
            LET k == FirstFailure
            IN  /\ Len(results) = k /\ k <= Len(mapping)
                /\ \A j \in 1..(k - 1) : results[j].exc = "none"
                /\ created_job_ids = [j \in 1..(k - 1) |-> results[j].val])
    /\ [][(FirstFailure # 0 /\ pc \in {"loop", "after_loop"} /\ pc' = "done") =>
            /\ UNCHANGED <<results, created_job_ids>>
            /\ IF created_job_ids # <<>> /\ SameServer
               THEN StoredIds(batch_file') = StoredIds(batch_file) \cup set(created_job_ids)
               ELSE batch_file' = batch_file]_vars

C16_Witness ==
    /\ pc = "done"
    /\ Len(mapping) = 3
    /\ FirstFailure = 2
    /\ created_job_ids = <<2>>
    /\ batch_file = JobBatch(<<2>>, active_server)

\* C17: whatever goes wrong when a job is created for a row is raised as
\* JobCreationException, and from_mapping reaches its batch recording.
C17_OnlyJobCreationException ==
    /\ \A k \in DOMAIN results : results[k].exc \in {"none", "JobCreationException"}
    /\ pc # "crashed"

----------------------------------------------------------------------------
(* Claims about the `map` commands *)

Present == mapping_file # NoneV

\* the step is a run of this command
Runs(name) == command'.name = name

\* the path of the selection file add_selection is run with
SelectionPath == PureWindowsPath(command'.args[1].data_file_path)

\* the selection file lies in the folder of the mapping
Inside == PurePath_relative_to_ok(SelectionPath, current_path)

\* C18: the mapping file is absent or present; init makes it present and
\* loadable; delete makes a present one absent and fails with "No mapping
\* defined" on an absent one, which stays absent; status and edit leave it
\* as it is, and edit launches the editor exactly when it is present.
C18_MappingLifecycle ==
    /\ [](mapping_file.t \in {"None", "Mapping"})
    /\ [][/\ Runs("init") =>
                /\ mapping_file' # NoneV /\ result'.exc = "none"
                /\ get_mapping(mapping_file').exc = "none"
          /\ (Runs("delete") /\ Present) =>
                mapping_file' = NoneV /\ result'.exc = "none"
          /\ (Runs("delete") /\ ~Present) =>
                /\ mapping_file' = NoneV
                /\ result' = RaiseWith("ClickException",
                                       "No mapping defined in current folder")
          /\ (Runs("status") \/ Runs("edit")) => mapping_file' = mapping_file
          /\ Runs("edit") => launched' = Present]_vars

C18_Witness ==
    /\ command # NoneV /\ command.name = "delete"
    /\ result.exc = "ClickException"
    /\ mapping_file = NoneV

\* C19: add_selection with a selection file outside the folder of the
\* mapping fails, with the bad-parameter error when there is a mapping, and
\* the mapping on disk keeps its rows in their order.
C19_OutsideSelectionRejected ==
    [][(Runs("add_selection") /\ ~Inside) =>
            /\ mapping_file' = mapping_file
            /\ result'.exc # "none"
            /\ Present => result'.exc = "BadParameter"]_vars

C19_Witness ==
    /\ command # NoneV /\ command.name = "add_selection"
    /\ result.exc = "BadParameter"
    /\ mapping_file # NoneV /\ Len(mapping_file.rows) = 3

\* C20: add_selection with a selection file inside the folder of the
\* mapping appends one row after the rows there were, and the source of the
\* new row is a fileselection identifier whose path is relative to the
\* folder of the mapping.
C20_InsideSelectionAppendsRow ==
    [][(Runs("add_selection") /\ Present /\ Inside) =>
            /\ result'.exc = "none"
            /\ mapping_file' # NoneV
            /\ Len(mapping_file'.rows) = Len(mapping_file.rows) + 1
            /\ SubSeq(mapping_file'.rows, 1, Len(mapping_file.rows)) = mapping_file.rows
            /\ LET source == mapping_file'.rows[Len(mapping_file'.rows)][1]
               IN  /\ source.cls = "SourceIdentifierParameter"
                   /\ source.value.cls = "FileSelectionIdentifier"
                   /\ ~PurePath_is_absolute(PureWindowsPath(source.value.identifier))
                   /\ PurePath_eq(PurePath_truediv(current_path,
                                                   Str(source.value.identifier)),
                                  SelectionPath)]_vars

C20_Witness ==
    /\ command # NoneV /\ command.name = "add_selection"
    /\ command.args[1].data_file_path = <<"x", ":", "\\", "x">>
    /\ result.exc = "none"
    /\ Len(mapping_file.rows) = 4
    /\ mapping_file.rows[4][1].value = SourceIdentifier("FileSelectionIdentifier", <<"x">>)

----------------------------------------------------------------------------
(* Claims about the text of a mapping *)

\* parameters of the same class with equal values
parameter_eq(p, q) == p.cls = q.cls /\ value_eq(p.value, q.value)

\* lists of parameters equal place by place
list_eq(a, b) ==
    /\ Len(a) = Len(b)
    /\ \A i \in DOMAIN a : parameter_eq(a[i], b[i])

\* parameter sets that hold equal parameters, in whatever order
options_eq(a, b) ==
    /\ \A i \in DOMAIN a.parameters : \E j \in DOMAIN b.parameters :
           parameter_eq(a.parameters[i], b.parameters[j])
    /\ \A j \in DOMAIN b.parameters : \E i \in DOMAIN a.parameters :
           parameter_eq(a.parameters[i], b.parameters[j])

\* C21: deserialize(serialize(m)) returns a mapping equal to m in options,
\* row order, row contents and description, for every mapping m built from
\* valid parameters.
C21_MappingRoundTrip ==
    op = "deserialize" =>
        /\ out.exc = "none"
        /\ out.val.description = src.description
        /\ options_eq(out.val.options, src.options)
        /\ Len(out.val.rows) = Len(src.rows)
        /\ \A k \in DOMAIN src.rows : list_eq(out.val.rows[k], src.rows[k])

----------------------------------------------------------------------------
(* Claims about assert_job_parameters *)

\* the fields of a parameters object
JobFields == {"patient_id", "patient_name", "description"}

\* C22: for every parameters object, the object assert_job_parameters
\* returns has a patient_name and a description that are not None, and
\* every field that was filled keeps its value.
C22_AllFieldsFilled ==
    op = "assert_job_parameters" =>
        /\ out.val.patient_name # NoneV
        /\ out.val.description # NoneV
        /\ \A f \in JobFields :
               attribute_truthy(arg[f]) => out.val[f] = arg[f]

----------------------------------------------------------------------------
(* Claims about the checks of `create from-mapping` *)

\* the run under way loaded its mapping, found both defaults in the
\* settings and was confirmed by the user
ChecksPassed ==
    /\ pc # "idle"
    /\ loaded
    /\ truthy(settings.project_name)
    /\ truthy(settings.destination_path)
    /\ confirmed

\* C23: a step of from_mapping that asks for a job, creates one or changes
\* the batch file is taken only in a run whose mapping loaded, whose
\* settings hold a project name and a destination path and which the user
\* confirmed; a run that fails one of the three checks creates no job and
\* leaves the batch file as it was.
C23_NoJobBeforeChecksPass ==
    [][(\/ Len(results') > Len(results)
        \/ jobs' # jobs
        \/ batch_file' # batch_file) => ChecksPassed]_vars

\* a run the user declined ended with "Cancelled", in a folder that holds
\* a batch of jobs created by an earlier run
C23_Witness ==
    /\ pc = "done"
    /\ loaded
    /\ truthy(settings.project_name)
    /\ truthy(settings.destination_path)
    /\ ~confirmed
    /\ mapping # <<>>
    /\ output = <<"Cancelled">>
    /\ results = <<>>
    /\ batch_file # NoneV
    /\ jobs # {}

----------------------------------------------------------------------------
(* Claims about add_study_folders *)

\* the selection file of a folder, as find_dicom_files finds it
SelectionFileOf(folder) == PurePath_truediv(folder.path, Str(selection_file_name))

\* processing this folder fails: it cannot be read, or its selection file
\* has an absolute path outside the current folder
Fails(folder) ==
    \/ ~folder.readable
    \/ /\ PurePath_is_absolute(SelectionFileOf(folder))
       /\ ~PurePath_relative_to_ok(SelectionFileOf(folder), current_path)

\* the text by which the row of a folder names its selection file
SourceTextOf(folder) ==
    IF PurePath_is_absolute(SelectionFileOf(folder))
    THEN PurePath_str(PurePath_relative_to(SelectionFileOf(folder), current_path))
    ELSE PurePath_str(SelectionFileOf(folder))

\* how many of the paths are processed before the first that fails
Processed(paths) ==
    IF \E i \in DOMAIN paths : Fails(paths[i])
    THEN (CHOOSE i \in DOMAIN paths :
              Fails(paths[i]) /\ \A j \in 1..(i - 1) : ~Fails(paths[j])) - 1
    ELSE Len(paths)

\* C24: add_study_folders leaves on disk the rows the mapping had, followed
\* by one row for each path before the first path that fails, in path
\* order, and it fails exactly when a path fails; without a mapping in the
\* folder it adds no row and creates no mapping file.
C24_FoldersSavedOneByOne ==
    [][Runs("add_study_folders") =>
            LET paths == command'.args
                n == Processed(paths)
            IN  /\ ~Present => mapping_file' = NoneV /\ result'.exc = "MappingLoadError"
                /\ Present =>
                    /\ mapping_file' # NoneV
                    /\ Len(mapping_file'.rows) = Len(mapping_file.rows) + n
                    /\ SubSeq(mapping_file'.rows, 1, Len(mapping_file.rows))
                           = mapping_file.rows
                    /\ \A i \in 1..n :
                           mapping_file'.rows[Len(mapping_file.rows) + i][1].value
                               = SourceIdentifier("FileSelectionIdentifier",
                                                  SourceTextOf(paths[i]))
                    /\ (n < Len(paths)) <=> (result'.exc # "none")]_vars

\* add_study_folders failed at its second path, on a folder outside the
\* current folder, and the row of its first path is on disk after the two
\* rows of the example mapping
C24_Witness ==
    /\ command # NoneV /\ command.name = "add_study_folders"
    /\ Len(command.args) = 2
    /\ ~Fails(command.args[1])
    /\ command.args[2].readable
    /\ result.exc = "ValueError"
    /\ mapping_file # NoneV /\ Len(mapping_file.rows) = 3
    /\ mapping_file.rows[3][1].value
           = SourceIdentifier("FileSelectionIdentifier", SourceTextOf(command.args[1]))

====
